---- MODULE Spec2Model ----
(***************************************************************************)
(* Model of libavfilter/buffersink.c: the single-slot frame handoff        *)
(* (start_frame / av_buffersink_read) and the audio re-chunker             *)
(* (av_buffersink_read_samples / read_from_fifo) layered on top of it.     *)
(*                                                                         *)
(* A frame is a record [id, pts, nb_samples, data]; data is the sequence   *)
(* of its samples.  A sample is identified by its position in the stream   *)
(* the upstream produces (1, 2, 3, ...), so reordering, duplication and    *)
(* loss of samples are all visible.                                        *)
(***************************************************************************)
EXTENDS Integers, Sequences, FiniteSets, TLC

(* ------------------------------ bounds -------------------------------- *)
MaxFrames == 2         \* frames the upstream produces in one run
MaxFrameSamples == 2   \* samples per upstream frame: 0..MaxFrameSamples
MaxPts == 2            \* upstream timestamps: 0..MaxPts, or AV_NOPTS_VALUE
MaxReq == 2            \* nb_samples of a request: 1..MaxReq
MaxCalls == 3          \* API calls in one run
MaxFaults == 1         \* injected failures / upstream contract violations

(* ------------------------- program constants -------------------------- *)
AV_NOPTS_VALUE == -2147483647   \* INT64_MIN in the code; any value no pts takes
AVERROR_EOF == -541478725
AVERROR_EINVAL == -22
AVERROR_ENOMEM == -12
AVERROR_EIO == -5

NULL == [id |-> 0, pts |-> 0, nb_samples |-> 0, data |-> <<>>]
NULL_FIFO == [allocated |-> FALSE, capacity |-> 0, samples |-> <<>>]
NotPolled == [valid |-> FALSE, ret |-> 0, query |-> 0]

VARIABLES
    cur_buf,      \* BufferSinkContext.cur_buf: NULL or the pending frame
    audio_fifo,   \* BufferSinkContext.audio_fifo: NULL_FIFO or the queue
    next_pts,     \* BufferSinkContext.next_pts
    link,         \* negotiated link parameters: sample_rate, time_base
    pc,           \* "idle", "loop" (inside av_buffersink_read_samples),
                  \* "aborted" (av_assert0 failed), "closed" (after uninit)
    nb_samples,   \* argument of the running av_buffersink_read_samples call
    reqs,         \* upstream requests issued by the running call
    upstream,     \* the graph: frames produced so far, end-of-stream reached
    delivered,    \* history: frames handed to start_frame, in order
    appended,     \* history: frames whose samples were written to the queue
    out,          \* history: one record per returned pull / read_samples call
    polled,       \* history: the value of the last call when it was a poll
    faults,       \* history: injected failures, in order
    link_cur_buf, \* link->cur_buf: the graph's reference to the frame in delivery
    released      \* history: ids of the frames the sink unreferenced, in order

vars == <<cur_buf, audio_fifo, next_pts, link, pc, nb_samples, reqs,
          upstream, delivered, appended, out, polled, faults,
          link_cur_buf, released>>

(* ------------------------------ helpers ------------------------------- *)
RECURSIVE SumSamples(_)
SumSamples(fs) ==
    IF fs = <<>> THEN 0 ELSE fs[1].nb_samples + SumSamples(Tail(fs))

RECURSIVE ConcatData(_)
ConcatData(fs) ==
    IF fs = <<>> THEN <<>> ELSE fs[1].data \o ConcatData(Tail(fs))

Iota(from, n) == [i \in 1..n |-> from + i]

IsPrefix(s, t) == Len(s) <= Len(t) /\ SubSeq(t, 1, Len(s)) = s

(* The link parameters a run may have been negotiated with.                *)
Links ==
    { [sample_rate |-> 2, tb_num |-> 1, tb_den |-> 2],    \* time base = 1/sample_rate
      [sample_rate |-> 3, tb_num |-> 1, tb_den |-> 2] }   \* 3 samples = 2 ticks

(* --------------------------- libavutil ------------------------------- *)
(* av_rescale_rnd(a, b, c, AV_ROUND_NEAR_INF)                              *)
RECURSIVE av_rescale_rnd(_, _, _)
av_rescale_rnd(a, b, c) ==
    IF a < 0 THEN 0 - av_rescale_rnd(0 - a, b, c)
    ELSE (a * b + (c \div 2)) \div c

(* av_rescale_q(a, (AVRational){1, sample_rate}, time_base)                *)
av_rescale_q(a, l) ==
    av_rescale_rnd(a, 1 * l.tb_den, l.tb_num * l.sample_rate)

av_audio_fifo_size(af) == Len(af.samples)

av_audio_fifo_space(af) == af.capacity - Len(af.samples)

(* av_audio_fifo_alloc(format, channels, nb): NULL when allocation fails   *)
av_audio_fifo_alloc(nb, ok) ==
    IF ok THEN [allocated |-> TRUE, capacity |-> nb, samples |-> <<>>]
    ELSE NULL_FIFO

(* av_audio_fifo_write: grows the queue when the samples do not fit; the   *)
(* queue is untouched when growing fails.                                  *)
av_audio_fifo_write(af, data, ok) ==
    IF av_audio_fifo_space(af) < Len(data)
    THEN IF ok
         THEN [ret |-> Len(data),
               af  |-> [af EXCEPT !.capacity = 2 * (Len(af.samples) + Len(data)),
                                  !.samples = @ \o data]]
         ELSE [ret |-> AVERROR_ENOMEM, af |-> af]
    ELSE [ret |-> Len(data), af |-> [af EXCEPT !.samples = @ \o data]]

(* av_audio_fifo_read: removes and returns the first nb samples, or all of  *)
(* them when the queue holds fewer                                         *)
av_audio_fifo_read(af, nb) ==
    LET k == IF nb < Len(af.samples) THEN nb ELSE Len(af.samples)
    IN  [data |-> SubSeq(af.samples, 1, k),
         af   |-> [af EXCEPT !.samples = SubSeq(@, k + 1, Len(@))]]

(* ---------------------------- buffersink.c ---------------------------- *)
(* the link keeps its reference to the frame it delivered                  *)
start_frame_keeps_link_ref(slot, buf) ==
    IF slot # NULL
    THEN [aborted |-> TRUE, cur_buf |-> slot, link_cur_buf |-> buf]
    ELSE [aborted |-> FALSE, cur_buf |-> buf, link_cur_buf |-> buf]

(* start_frame: av_assert0(!s->cur_buf); s->cur_buf = buf;                 *)
(* link->cur_buf = NULL.  The graph set link->cur_buf to buf for the call. *)
start_frame(slot, buf) ==
    IF slot # NULL
    THEN [aborted |-> TRUE, cur_buf |-> slot, link_cur_buf |-> buf]
    ELSE [aborted |-> FALSE, cur_buf |-> buf, link_cur_buf |-> NULL]

(* What one upstream request does.  o.kind:                                *)
(*   "deliver"        one frame through start_frame, status 0              *)
(*   "eof"            no frame, AVERROR_EOF                                *)
(*   "error"          no frame, another negative status                    *)
(*   "no_delivery"    no frame although the status is 0                    *)
(*   "deliver_error"  one frame through start_frame, negative status       *)
ff_request_frame(slot, o) ==
    CASE o.kind = "deliver" ->
            LET d == start_frame(slot, o.frame)
            IN  [ret |-> 0, cur_buf |-> d.cur_buf, aborted |-> d.aborted]
      [] o.kind = "deliver_error" ->
            LET d == start_frame(slot, o.frame)
            IN  [ret |-> AVERROR_EIO, cur_buf |-> d.cur_buf, aborted |-> d.aborted]
      [] o.kind = "eof" ->
            [ret |-> AVERROR_EOF, cur_buf |-> slot, aborted |-> FALSE]
      [] o.kind = "error" ->
            [ret |-> AVERROR_EIO, cur_buf |-> slot, aborted |-> FALSE]
      [] OTHER ->
            [ret |-> 0, cur_buf |-> slot, aborted |-> FALSE]

(* the slot is cleared before it is copied to the destination              *)
av_buffersink_read_swapped(slot, o) ==
    LET r == ff_request_frame(slot, o)
    IN  IF r.aborted
        THEN [aborted |-> TRUE, ret |-> 0, written |-> FALSE, buf |-> NULL,
              cur_buf |-> r.cur_buf, req |-> r.ret]
        ELSE IF r.ret < 0
        THEN [aborted |-> FALSE, ret |-> r.ret, written |-> FALSE, buf |-> NULL,
              cur_buf |-> r.cur_buf, req |-> r.ret]
        ELSE IF r.cur_buf = NULL
        THEN [aborted |-> FALSE, ret |-> AVERROR_EINVAL, written |-> FALSE,
              buf |-> NULL, cur_buf |-> r.cur_buf, req |-> r.ret]
        ELSE [aborted |-> FALSE, ret |-> 0, written |-> TRUE, buf |-> NULL,
              cur_buf |-> NULL, req |-> r.ret]

(* the slot is not cleared when its frame is handed out                    *)
av_buffersink_read_keeps_slot(slot, o) ==
    LET r == ff_request_frame(slot, o)
    IN  IF r.aborted
        THEN [aborted |-> TRUE, ret |-> 0, written |-> FALSE, buf |-> NULL,
              cur_buf |-> r.cur_buf, req |-> r.ret]
        ELSE IF r.ret < 0
        THEN [aborted |-> FALSE, ret |-> r.ret, written |-> FALSE, buf |-> NULL,
              cur_buf |-> r.cur_buf, req |-> r.ret]
        ELSE IF r.cur_buf = NULL
        THEN [aborted |-> FALSE, ret |-> AVERROR_EINVAL, written |-> FALSE,
              buf |-> NULL, cur_buf |-> r.cur_buf, req |-> r.ret]
        ELSE [aborted |-> FALSE, ret |-> 0, written |-> TRUE, buf |-> r.cur_buf,
              cur_buf |-> r.cur_buf, req |-> r.ret]

(* the poll takes the frame out of the slot                                *)
av_buffersink_poll_takes_slot(slot, v) == [ret |-> v, cur_buf |-> NULL]

(* lines 68-69: av_buffersink_read without a destination returns the       *)
(* value v of ff_poll_frame and touches nothing                            *)
av_buffersink_poll(slot, v) == [ret |-> v, cur_buf |-> slot]

(* the slot is looked at before the status of the request                 *)
av_buffersink_read_slot_first(slot, o) ==
    LET r == ff_request_frame(slot, o)
    IN  IF r.aborted
        THEN [aborted |-> TRUE, ret |-> 0, written |-> FALSE, buf |-> NULL,
              cur_buf |-> r.cur_buf, req |-> r.ret]
        ELSE IF r.cur_buf = NULL
        THEN [aborted |-> FALSE, ret |-> AVERROR_EINVAL, written |-> FALSE,
              buf |-> NULL, cur_buf |-> r.cur_buf, req |-> r.ret]
        ELSE IF r.ret < 0
        THEN [aborted |-> FALSE, ret |-> r.ret, written |-> FALSE, buf |-> NULL,
              cur_buf |-> r.cur_buf, req |-> r.ret]
        ELSE [aborted |-> FALSE, ret |-> 0, written |-> TRUE, buf |-> r.cur_buf,
              cur_buf |-> NULL, req |-> r.ret]

(* the check for a missing delivery is left out                            *)
av_buffersink_read_unchecked(slot, o) ==
    LET r == ff_request_frame(slot, o)
    IN  IF r.aborted
        THEN [aborted |-> TRUE, ret |-> 0, written |-> FALSE, buf |-> NULL,
              cur_buf |-> r.cur_buf, req |-> r.ret]
        ELSE IF r.ret < 0
        THEN [aborted |-> FALSE, ret |-> r.ret, written |-> FALSE, buf |-> NULL,
              cur_buf |-> r.cur_buf, req |-> r.ret]
        ELSE [aborted |-> FALSE, ret |-> 0, written |-> TRUE, buf |-> r.cur_buf,
              cur_buf |-> NULL, req |-> r.ret]

(* av_buffersink_read with a destination.  written: *buf was assigned;     *)
(* req: the status of the upstream request.                                *)
av_buffersink_read(slot, o) ==
    LET r == ff_request_frame(slot, o)
    IN  IF r.aborted
        THEN [aborted |-> TRUE, ret |-> 0, written |-> FALSE, buf |-> NULL,
              cur_buf |-> r.cur_buf, req |-> r.ret]
        ELSE IF r.ret < 0
        THEN [aborted |-> FALSE, ret |-> r.ret, written |-> FALSE, buf |-> NULL,
              cur_buf |-> r.cur_buf, req |-> r.ret]
        ELSE IF r.cur_buf = NULL
        THEN [aborted |-> FALSE, ret |-> AVERROR_EINVAL, written |-> FALSE,
              buf |-> NULL, cur_buf |-> r.cur_buf, req |-> r.ret]
        ELSE [aborted |-> FALSE, ret |-> 0, written |-> TRUE, buf |-> r.cur_buf,
              cur_buf |-> NULL, req |-> r.ret]

(* the frame is stamped after next_pts has advanced                        *)
read_from_fifo_stamps_late(af, pts, nb, l, ok) ==
    IF ~ok
    THEN [ret |-> AVERROR_ENOMEM, written |-> FALSE, buf |-> NULL,
          af |-> af, next_pts |-> pts]
    ELSE LET r == av_audio_fifo_read(af, nb)
         IN  [ret |-> 0, written |-> TRUE,
              buf |-> [id |-> 0, pts |-> pts + av_rescale_q(nb, l),
                       nb_samples |-> nb, data |-> r.data],
              af  |-> r.af,
              next_pts |-> pts + av_rescale_q(nb, l)]

(* read_from_fifo(ctx, pbuf, nb); ok: ff_get_audio_buffer succeeded        *)
read_from_fifo(af, pts, nb, l, ok) ==
    IF ~ok
    THEN [ret |-> AVERROR_ENOMEM, written |-> FALSE, buf |-> NULL,
          af |-> af, next_pts |-> pts]
    ELSE LET r == av_audio_fifo_read(af, nb)
         IN  [ret |-> 0, written |-> TRUE,
              buf |-> [id |-> 0, pts |-> pts, nb_samples |-> nb, data |-> r.data],
              af  |-> r.af,
              next_pts |-> pts + av_rescale_q(nb, l)]

(* a queue smaller than the request is replaced by a new one               *)
NeedsFifo_resize(af, nb) == ~af.allocated \/ af.capacity < nb

(* line 110: the queue is created when there is none                       *)
NeedsFifo(af, nb) == ~af.allocated

(* line 137: avfilter_unref_buffer(buf) after the write attempt            *)
UnrefPulled(rel, buf) == Append(rel, buf.id)

(* the loop goes on only when the last step wrote samples                  *)
LoopContinues_positive(ret) == ret > 0

(* line 116: while (ret >= 0)                                              *)
LoopContinues(ret) == ret >= 0

(* the queue must hold more than the request                               *)
FifoHasEnough_strict(af, nb) == av_audio_fifo_size(af) > nb

(* line 119: the queue holds enough to serve the request                   *)
FifoHasEnough(af, nb) == av_audio_fifo_size(af) >= nb

(* end-of-stream is returned without looking at the queue                  *)
EofDrains_never(ret, af) == FALSE

(* end-of-stream drains even an empty queue                                *)
EofDrains_empty(ret, af) == ret = AVERROR_EOF

(* any failed pull drains the leftover samples                             *)
EofDrains_any_error(ret, af) == ret < 0 /\ av_audio_fifo_size(af) # 0

(* line 123: end-of-stream with leftover samples drains the queue          *)
EofDrains(ret, af) == ret = AVERROR_EOF /\ av_audio_fifo_size(af) # 0

(* the final drain asks for nb_samples instead of what is queued           *)
EofDrainCount_requested(af, nb) == nb

(* line 124: the final short frame takes everything that is queued         *)
EofDrainCount(af, nb) == av_audio_fifo_size(af)

(* the resynchronisation counts the queue after the frame was appended     *)
Resync_after_append(af, pts, buf, l) ==
    IF buf.pts # AV_NOPTS_VALUE
    THEN buf.pts - av_rescale_q(av_audio_fifo_size(af) + buf.nb_samples, l)
    ELSE pts

(* the resynchronisation forgets the samples queued ahead of the frame     *)
Resync_ignores_queue(af, pts, buf, l) ==
    IF buf.pts # AV_NOPTS_VALUE THEN buf.pts ELSE pts

(* lines 128-133: resynchronise next_pts on a stamped frame                *)
Resync(af, pts, buf, l) ==
    IF buf.pts # AV_NOPTS_VALUE
    THEN buf.pts - av_rescale_q(av_audio_fifo_size(af), l)
    ELSE pts

(* ------------------------------ upstream ------------------------------ *)
(* The next frame the graph can produce: any size and timestamp in the     *)
(* bounds; its samples continue the stream.                                *)
NextFrames ==
    IF upstream.eof \/ upstream.produced >= MaxFrames THEN {}
    ELSE { [id |-> upstream.produced + 1, pts |-> p, nb_samples |-> n,
            data |-> Iota(upstream.samples, n)] :
           n \in 0..MaxFrameSamples, p \in (0..MaxPts) \cup {AV_NOPTS_VALUE} }

CanFault == Len(faults) < MaxFaults

(* The outcomes one upstream request can have in the current state.        *)
Outcomes ==
    { [kind |-> "deliver", frame |-> f] : f \in NextFrames }
    \cup { [kind |-> "eof", frame |-> NULL] }
    \cup (IF CanFault
          THEN { [kind |-> "error", frame |-> NULL],
                 [kind |-> "no_delivery", frame |-> NULL] }
               \cup { [kind |-> "deliver_error", frame |-> f] : f \in NextFrames }
          ELSE {})

Delivers(o) == o.kind \in {"deliver", "deliver_error"}

UpstreamAfter(o) ==
    [produced |-> upstream.produced + (IF Delivers(o) THEN 1 ELSE 0),
     samples  |-> upstream.samples + (IF Delivers(o) THEN o.frame.nb_samples ELSE 0),
     eof      |-> upstream.eof \/ o.kind = "eof",
     requests |-> upstream.requests + 1]

(* link->cur_buf after the request: start_frame clears it                  *)
LinkCurBufAfter(o) ==
    IF Delivers(o) THEN start_frame(cur_buf, o.frame).link_cur_buf
    ELSE link_cur_buf

DeliveredAfter(o) == IF Delivers(o) THEN Append(delivered, o.frame) ELSE delivered

FaultsAfter(o) ==
    IF o.kind \in {"error", "no_delivery", "deliver_error"}
    THEN Append(faults, o.kind) ELSE faults

(* Whether an allocation succeeds; it may fail while faults are allowed.   *)
Oks == IF CanFault THEN {TRUE, FALSE} ELSE {TRUE}

OksAfter(o) == IF Len(FaultsAfter(o)) < MaxFaults THEN {TRUE, FALSE} ELSE {TRUE}

(* ------------------------------- state -------------------------------- *)
Init ==
    /\ cur_buf = NULL
    /\ audio_fifo = NULL_FIFO
    /\ next_pts = 0
    /\ link \in Links
    /\ pc = "idle"
    /\ nb_samples = 0
    /\ reqs = 0
    /\ upstream = [produced |-> 0, samples |-> 0, eof |-> FALSE, requests |-> 0]
    /\ delivered = <<>>
    /\ appended = <<>>
    /\ out = <<>>
    /\ polled = NotPolled
    /\ faults = <<>>
    /\ link_cur_buf = NULL
    /\ released = <<>>

(* One record of the history out: the call and its nb_samples, its status, *)
(* whether it wrote its destination and with what, the upstream requests   *)
(* it issued, and the status of the upstream request (req) and of the pull *)
(* through av_buffersink_read (pull) made by the step that returned; 1     *)
(* when that step made none.                                               *)
Result(op, n, ret, written, buf, nreq, req, pull) ==
    [op |-> op, n |-> n, ret |-> ret, written |-> written, buf |-> buf,
     reqs |-> nreq, req |-> req, pull |-> pull]

(* What ff_poll_frame can answer: a count of frames or an error.           *)
PollValues == {0, 1, AVERROR_EIO}

CanCall == pc = "idle" /\ Len(out) < MaxCalls

Return(r) ==
    /\ out' = Append(out, r)
    /\ pc' = "idle" /\ nb_samples' = 0 /\ reqs' = 0

(* av_buffersink_read(ctx, NULL): the value of ff_poll_frame               *)
Poll ==
    /\ pc = "idle"
    /\ \E v \in PollValues :
          LET r == av_buffersink_poll(cur_buf, v)
          IN  /\ polled' = [valid |-> TRUE, ret |-> r.ret, query |-> v]
              /\ cur_buf' = r.cur_buf
    /\ UNCHANGED <<audio_fifo, next_pts, link, pc, nb_samples, reqs,
                   upstream, delivered, appended, out, faults,
                   link_cur_buf, released>>

(* av_buffersink_read(ctx, &buf)                                           *)
Read ==
    /\ CanCall
    /\ \E o \in Outcomes :
          LET r == av_buffersink_read(cur_buf, o)
          IN  /\ cur_buf' = r.cur_buf
              /\ upstream' = UpstreamAfter(o)
              /\ delivered' = DeliveredAfter(o)
              /\ link_cur_buf' = LinkCurBufAfter(o)
              /\ faults' = FaultsAfter(o)
              /\ IF r.aborted
                 THEN pc' = "aborted" /\ out' = out
                 ELSE /\ pc' = pc
                      /\ out' = Append(out, Result("read", 0, r.ret, r.written,
                                                   r.buf, 1, r.req, 1))
    /\ polled' = NotPolled
    /\ UNCHANGED <<audio_fifo, next_pts, link, nb_samples, reqs, appended,
                   released>>

(* av_buffersink_read_samples, lines 106-114: the queue is created on the  *)
(* first call.                                                             *)
ReadSamplesEnter ==
    /\ CanCall
    /\ \E n \in 1..MaxReq, ok \in Oks :
          IF ~NeedsFifo(audio_fifo, n)
          THEN /\ ok
               /\ pc' = "loop" /\ nb_samples' = n /\ reqs' = 0
               /\ UNCHANGED <<audio_fifo, out, faults>>
          ELSE LET af == av_audio_fifo_alloc(n, ok)
               IN  /\ audio_fifo' = af
                   /\ IF af.allocated
                      THEN /\ pc' = "loop" /\ nb_samples' = n /\ reqs' = 0
                           /\ UNCHANGED <<out, faults>>
                      ELSE /\ Return(Result("read_samples", n, AVERROR_ENOMEM,
                                            FALSE, NULL, 0, 1, 1))
                           /\ faults' = Append(faults, "fifo_alloc")
    /\ polled' = NotPolled
    /\ UNCHANGED <<cur_buf, next_pts, link, upstream, delivered, appended,
                   link_cur_buf, released>>

(* lines 119-120: the queue holds enough, serve the request from it        *)
ReadSamplesDrain ==
    /\ pc = "loop"
    /\ FifoHasEnough(audio_fifo, nb_samples)
    /\ \E ok \in Oks :
          LET r == read_from_fifo(audio_fifo, next_pts, nb_samples, link, ok)
          IN  /\ audio_fifo' = r.af
              /\ next_pts' = r.next_pts
              /\ Return(Result("read_samples", nb_samples, r.ret, r.written,
                               r.buf, reqs, 1, 1))
              /\ faults' = IF ok THEN faults ELSE Append(faults, "buffer_alloc")
    /\ UNCHANGED <<cur_buf, link, upstream, delivered, appended, polled,
                   link_cur_buf, released>>

(* lines 122-137: one pull of the loop and what follows it                 *)
ReadSamplesPull ==
    /\ pc = "loop"
    /\ ~FifoHasEnough(audio_fifo, nb_samples)
    /\ \E o \in Outcomes :
          LET r == av_buffersink_read(cur_buf, o)
          IN  /\ cur_buf' = r.cur_buf
              /\ upstream' = UpstreamAfter(o)
              /\ delivered' = DeliveredAfter(o)
              /\ link_cur_buf' = LinkCurBufAfter(o)
              /\ IF r.aborted
                 THEN /\ pc' = "aborted"
                      /\ faults' = FaultsAfter(o)
                      /\ UNCHANGED <<audio_fifo, next_pts, nb_samples, reqs,
                                     appended, out, released>>
                 ELSE IF EofDrains(r.ret, audio_fifo)
                 THEN \E ok \in OksAfter(o) :
                        LET d == read_from_fifo(audio_fifo, next_pts,
                                     EofDrainCount(audio_fifo, nb_samples), link, ok)
                        IN  /\ audio_fifo' = d.af
                            /\ next_pts' = d.next_pts
                            /\ Return(Result("read_samples", nb_samples, d.ret,
                                         d.written, d.buf, reqs + 1, r.req, r.ret))
                            /\ faults' = IF ok THEN FaultsAfter(o)
                                         ELSE Append(FaultsAfter(o), "buffer_alloc")
                            /\ UNCHANGED <<appended, released>>
                 ELSE IF r.ret < 0
                 THEN /\ Return(Result("read_samples", nb_samples, r.ret, FALSE,
                                       NULL, reqs + 1, r.req, r.ret))
                      /\ faults' = FaultsAfter(o)
                      /\ UNCHANGED <<audio_fifo, next_pts, appended, released>>
                 ELSE \E ok \in OksAfter(o) :
                        LET w == av_audio_fifo_write(audio_fifo, r.buf.data, ok)
                        IN  /\ (~ok => w.ret < 0)
                            /\ next_pts' = Resync(audio_fifo, next_pts, r.buf, link)
                            /\ audio_fifo' = w.af
                            /\ released' = UnrefPulled(released, r.buf)
                            /\ IF ~LoopContinues(w.ret)
                               THEN /\ Return(Result("read_samples", nb_samples,
                                           w.ret, FALSE, NULL, reqs + 1, r.req,
                                           r.ret))
                                    /\ faults' = Append(FaultsAfter(o), "fifo_write")
                                    /\ appended' = appended
                               ELSE /\ appended' = Append(appended, r.buf)
                                    /\ reqs' = reqs + 1
                                    /\ faults' = FaultsAfter(o)
                                    /\ UNCHANGED <<pc, nb_samples, out>>
    /\ UNCHANGED <<link, polled>>

(* uninit: frees the queue if there is one                                 *)
Uninit ==
    /\ pc = "idle"
    /\ audio_fifo' = IF audio_fifo.allocated THEN NULL_FIFO ELSE audio_fifo
    /\ pc' = "closed"
    /\ polled' = NotPolled
    /\ UNCHANGED <<cur_buf, next_pts, link, nb_samples, reqs, upstream,
                   delivered, appended, out, faults, link_cur_buf, released>>

Next ==
    \/ Poll
    \/ Read
    \/ ReadSamplesEnter
    \/ ReadSamplesDrain
    \/ ReadSamplesPull
    \/ Uninit

Spec == Init /\ [][Next]_vars

(* A call of av_buffersink_read_samples that has started runs on: the loop *)
(* is sequential code and every upstream request returns.                  *)
LiveSpec ==
    Init /\ [][Next]_vars /\ WF_vars(ReadSamplesDrain) /\ WF_vars(ReadSamplesPull)

(* ====================== properties of the re-chunker ================== *)
Last(s) == s[Len(s)]

NoFaults == faults = <<>>

(* The upstream kept its contract: one frame per successful request, none  *)
(* on a failed one.                                                        *)
WellDriven ==
    \A i \in 1..Len(faults) : faults[i] \notin {"no_delivery", "deliver_error"}

OnlyReadSamples == \A i \in 1..Len(out) : out[i].op = "read_samples"

OnlyReadSamplesOf(n) ==
    \A i \in 1..Len(out) : out[i].op = "read_samples" /\ out[i].n = n

(* The frames the calls returned, in order of return.                      *)
RECURSIVE Returned(_)
Returned(rs) ==
    IF rs = <<>> THEN <<>>
    ELSE IF rs[1].ret = 0 /\ rs[1].written
         THEN <<rs[1].buf>> \o Returned(Tail(rs))
         ELSE Returned(Tail(rs))

(* What repeated requests of n samples on a stream of s samples return:    *)
(* the sizes of the frames; -1 stands for a call that returned             *)
(* end-of-stream without a frame.                                          *)
Chunks(s, n) ==
    [i \in 1..(s \div n) |-> n] \o (IF s % n > 0 THEN <<s % n>> ELSE <<>>)

Sizes(rs) ==
    [i \in 1..Len(rs) |->
        IF rs[i].ret = 0 /\ rs[i].written THEN rs[i].buf.nb_samples
        ELSE IF rs[i].ret = AVERROR_EOF /\ ~rs[i].written THEN -1
        ELSE -2]

EofOnly(s) == \A i \in 1..Len(s) : s[i] = -1

(* C1: exact re-chunking.  In a run without failures in which every call   *)
(* is av_buffersink_read_samples(n) for one n: before the upstream's        *)
(* end-of-stream every returned frame has exactly n samples; once the       *)
(* upstream has signalled end-of-stream after S samples, the calls have     *)
(* returned S div n frames of n samples, then one frame of S mod n samples  *)
(* if that is not 0, then nothing but end-of-stream; the samples returned   *)
(* total S.                                                                 *)
C1_ExactRechunking ==
    \A n \in 1..MaxReq :
        (NoFaults /\ OnlyReadSamplesOf(n)) =>
            LET S == SumSamples(delivered)
                sizes == Sizes(out)
                want == Chunks(S, n)
            IN  IF upstream.eof
                THEN /\ Len(sizes) >= Len(want)
                     /\ SubSeq(sizes, 1, Len(want)) = want
                     /\ EofOnly(SubSeq(sizes, Len(want) + 1, Len(sizes)))
                     /\ SumSamples(Returned(out)) = S
                     /\ \A i \in 1..Len(out) :
                            out[i].written => Len(out[i].buf.data) = out[i].buf.nb_samples
                ELSE /\ \A i \in 1..Len(sizes) : sizes[i] = n
                     /\ Len(sizes) <= S \div n

(* a complete run: full frames, a short last frame, then end-of-stream     *)
C1_Witness ==
    /\ NoFaults /\ OnlyReadSamples /\ upstream.eof
    /\ Len(out) = 3
    /\ Len(delivered) = 2
    /\ Sizes(out) = <<2, 1, -1>>
    /\ out[1].n = 2 /\ out[2].n = 2 /\ out[3].n = 2

(* The frames successive av_buffersink_read_samples calls returned.        *)
ReturnedSamples == Returned(SelectSeq(out, LAMBDA r : r.op = "read_samples"))

(* Each returned frame is stamped with the previous returned frame's       *)
(* timestamp plus the time-equivalent of that frame's sample count.        *)
PtsChained(fs) ==
    \A i \in 1..(Len(fs) - 1) :
        /\ fs[i + 1].pts >= fs[i].pts
        /\ fs[i + 1].pts = fs[i].pts + av_rescale_q(fs[i].nb_samples, link)

Stamped(fs) == \A i \in 1..Len(fs) : fs[i].pts # AV_NOPTS_VALUE

NonDecreasing(fs) ==
    Stamped(fs) /\ \A i \in 1..(Len(fs) - 1) : fs[i].pts <= fs[i + 1].pts

(* Every frame is stamped with the first frame's timestamp plus the        *)
(* time-equivalent of the samples that precede it in the stream.           *)
Contiguous(fs) ==
    Stamped(fs) /\
    \A i \in 1..Len(fs) :
        fs[i].pts = fs[1].pts + av_rescale_q(SumSamples(SubSeq(fs, 1, i - 1)), link)

(* One sample is a whole number of ticks of the link time base.            *)
ExactTimeBase(l) == l.tb_den % (l.tb_num * l.sample_rate) = 0

(* C2 as stated: whenever the input timestamps are non-decreasing (a run   *)
(* without failures, every call an av_buffersink_read_samples), the        *)
(* timestamps returned are non-decreasing and each is the previous one     *)
(* plus the time-equivalent of the previous frame's samples.               *)
C2_AsStated ==
    (NoFaults /\ OnlyReadSamples /\ NonDecreasing(delivered))
        => PtsChained(ReturnedSamples)

(* C2 amended: when one sample is a whole number of time-base ticks, every *)
(* frame delivered has gone into the queue and the input timestamps are    *)
(* contiguous, the returned timestamps are non-decreasing and each is the  *)
(* previous one plus the time-equivalent of the previous frame's samples.  *)
C2_TimestampsChained ==
    (ExactTimeBase(link) /\ appended = delivered /\ Contiguous(delivered))
        => PtsChained(ReturnedSamples)

(* two returned frames, the second made of samples of two input frames, so *)
(* that a resynchronisation on a non-empty queue lies between them         *)
C2_Witness ==
    /\ ExactTimeBase(link) /\ appended = delivered /\ Contiguous(delivered)
    /\ Len(delivered) = 2 /\ delivered[1].pts = 1
    /\ Len(ReturnedSamples) = 2
    /\ ReturnedSamples[2].data = <<2, 3>>
    /\ ReturnedSamples[2].pts = 2

(* ======================= properties of the handoff ==================== *)
OnlyReads == \A i \in 1..Len(out) : out[i].op = "read"

(* C3: FIFO order of plain pulls.  When the upstream keeps its contract    *)
(* and every call is an av_buffersink_read with a destination, the frames  *)
(* the successful calls returned are exactly the frames delivered, in      *)
(* delivery order, each once, payload and timestamp unchanged; a call that *)
(* failed wrote no frame.                                                  *)
C3_PullFifoOrder ==
    (WellDriven /\ OnlyReads /\ pc \in {"idle", "closed"}) =>
        /\ Returned(out) = delivered
        /\ cur_buf = NULL
        /\ \A i \in 1..Len(out) : out[i].written <=> out[i].ret = 0

C3_Witness ==
    /\ WellDriven /\ OnlyReads /\ pc = "idle"
    /\ Len(out) = 3 /\ Len(delivered) = 2
    /\ out[2].ret < 0
    /\ out[1].buf = delivered[1] /\ out[3].buf = delivered[2]
    /\ delivered[1].data # <<>> /\ delivered[2].data # <<>>

(* C4: single-slot invariant.  The slot holds NULL or one delivered frame; *)
(* a delivery into an occupied slot stops the program on the assertion     *)
(* with the held frame still in the slot (the held frame is the one        *)
(* delivered before, not the one just offered); and when the upstream      *)
(* keeps its contract no sequence of calls reaches that assertion.         *)
C4_SingleSlot ==
    /\ cur_buf # NULL => \E i \in 1..Len(delivered) : cur_buf = delivered[i]
    /\ pc = "aborted" =>
          /\ Len(delivered) >= 2
          /\ cur_buf = delivered[Len(delivered) - 1]
          /\ cur_buf # Last(delivered)
    /\ WellDriven => pc # "aborted"

(* the assertion fires inside av_buffersink_read_samples                   *)
C4_Witness ==
    /\ pc = "aborted" /\ cur_buf # NULL /\ ~WellDriven
    /\ audio_fifo.allocated /\ nb_samples > 0

(* ================== properties of the re-chunker, continued =========== *)
(* C5: sample order.  When the upstream keeps its contract and every call  *)
(* is an av_buffersink_read_samples, the samples returned so far followed  *)
(* by the samples queued are the samples delivered so far, in delivery     *)
(* order (so what was returned is a prefix of what was delivered).         *)
C5_SampleOrder ==
    (WellDriven /\ OnlyReadSamples /\ pc \in {"idle", "loop"}) =>
        /\ IsPrefix(ConcatData(Returned(out)), ConcatData(delivered))
        /\ ConcatData(Returned(out)) \o audio_fifo.samples = ConcatData(delivered)

(* C6: end-of-stream drain.  In a run without failures whose first call is *)
(* av_buffersink_read_samples(N) and met the upstream's end-of-stream      *)
(* after S samples, 0 < S < N: the call returned success with a frame of   *)
(* exactly those S samples, and every later av_buffersink_read_samples     *)
(* returned end-of-stream without a frame.                                 *)
C6_EofDrain ==
    LET S == SumSamples(delivered)
    IN  (/\ NoFaults /\ OnlyReadSamples /\ Len(out) >= 1
         /\ out[1].pull = AVERROR_EOF
         /\ 0 < S /\ S < out[1].n) =>
            /\ out[1].ret = 0 /\ out[1].written
            /\ out[1].buf.nb_samples = S
            /\ out[1].buf.data = ConcatData(delivered)
            /\ \A i \in 2..Len(out) :
                  out[i].ret = AVERROR_EOF /\ ~out[i].written

C6_Witness ==
    /\ NoFaults /\ OnlyReadSamples /\ Len(out) = 3
    /\ out[1].pull = AVERROR_EOF /\ out[1].n = 2
    /\ SumSamples(delivered) = 1 /\ Len(delivered) = 2
    /\ out[1].ret = 0 /\ out[2].ret = AVERROR_EOF /\ out[3].ret = AVERROR_EOF

(* C7: no empty or oversized output frame.  Every successful               *)
(* av_buffersink_read_samples(n) carries a frame of at least 1 and at most *)
(* n samples, fewer than n only when the upstream signalled end-of-stream  *)
(* during the call; a call that met end-of-stream with an empty queue      *)
(* returned end-of-stream and no frame.                                    *)
C7_FrameSize ==
    \A i \in 1..Len(out) :
        out[i].op = "read_samples" =>
            /\ out[i].ret = 0 =>
                  /\ out[i].written
                  /\ out[i].buf.nb_samples >= 1
                  /\ out[i].buf.nb_samples <= out[i].n
                  /\ Len(out[i].buf.data) = out[i].buf.nb_samples
                  /\ out[i].buf.nb_samples < out[i].n => out[i].pull = AVERROR_EOF
            /\ out[i].ret # 0 => ~out[i].written

(* the input is an exact multiple of the request (1 + 1 samples, n = 2):   *)
(* the second call meets end-of-stream on an empty queue                   *)
C7_Witness ==
    /\ NoFaults /\ OnlyReadSamples /\ Len(out) = 2
    /\ Len(delivered) = 2 /\ delivered[1].nb_samples = 1 /\ delivered[2].nb_samples = 1
    /\ out[1].n = 2 /\ out[1].ret = 0 /\ out[1].buf.nb_samples = 2
    /\ out[2].n = 2 /\ out[2].ret = AVERROR_EOF /\ out[2].pull = AVERROR_EOF
    /\ ~out[2].written /\ audio_fifo.samples = <<>>

(* ========================= failures and retries ======================= *)
(* C8 as stated: whenever av_buffersink_read_samples has just returned an  *)
(* error other than end-of-stream and invalid-state (the upstream keeping  *)
(* its contract, every call an av_buffersink_read_samples), every sample   *)
(* delivered and not yet returned is still in the queue.                   *)
C8_AsStated ==
    (/\ WellDriven /\ OnlyReadSamples /\ pc = "idle" /\ Len(out) >= 1
     /\ Last(out).ret < 0
     /\ Last(out).ret \notin {AVERROR_EOF, AVERROR_EINVAL}) =>
        LET nret == Len(ConcatData(Returned(out)))
            all  == ConcatData(delivered)
        IN  audio_fifo.samples = SubSeq(all, nret + 1, Len(all))

(* What the upstream did in a step that issued a request, read off the     *)
(* histories: the outcome of the request and the status                    *)
(* av_buffersink_read returns for it on an empty slot.                     *)
Requested == upstream'.requests = upstream.requests + 1

PulledKind ==
    IF Len(faults') > Len(faults)
       /\ faults'[Len(faults) + 1] \in {"error", "no_delivery", "deliver_error"}
    THEN faults'[Len(faults) + 1]
    ELSE IF delivered' # delivered THEN "deliver" ELSE "eof"

PulledStatus ==
    CASE PulledKind = "eof" -> AVERROR_EOF
      [] PulledKind \in {"error", "deliver_error"} -> AVERROR_EIO
      [] PulledKind = "no_delivery" /\ cur_buf = NULL -> AVERROR_EINVAL
      [] OTHER -> 0

(* C9: a pull inside av_buffersink_read_samples that fails (any negative   *)
(* status, invalid-state included, except end-of-stream with samples       *)
(* queued) makes the call return at once with that very status and no     *)
(* frame, and the step changes neither the queue nor next_pts.             *)
C9_FailedPull ==
    [][ (/\ pc = "loop" /\ Requested /\ pc' # "aborted"
         /\ PulledStatus < 0
         /\ ~(PulledStatus = AVERROR_EOF /\ av_audio_fifo_size(audio_fifo) # 0)) =>
            /\ pc' = "idle"
            /\ Len(out') = Len(out) + 1
            /\ Last(out').op = "read_samples"
            /\ Last(out').ret = PulledStatus
            /\ ~Last(out').written
            /\ audio_fifo' = audio_fifo
            /\ next_pts' = next_pts ]_vars

(* an upstream error met with samples already queued: they stay queued     *)
C9_Witness ==
    /\ pc = "idle" /\ Len(out) >= 1
    /\ Last(out).op = "read_samples" /\ Last(out).ret = AVERROR_EIO
    /\ Last(out).pull = AVERROR_EIO /\ Last(out).reqs = 2
    /\ audio_fifo.samples = <<1>> /\ next_pts # 0

(* C10: invalid-state on a missing delivery.  When av_buffersink_read with *)
(* a destination finds the slot still empty after a request that returned  *)
(* success, it returns AVERROR(EINVAL), writes no destination, leaves the   *)
(* slot empty and has issued that one request only.                         *)
C10_MissingDelivery ==
    [][ (/\ pc = "idle" /\ upstream'.requests > upstream.requests
         /\ PulledKind = "no_delivery" /\ cur_buf = NULL) =>
            /\ pc' = "idle"
            /\ Len(out') = Len(out) + 1
            /\ Last(out').op = "read"
            /\ Last(out').ret = AVERROR_EINVAL
            /\ ~Last(out').written
            /\ cur_buf' = NULL
            /\ Requested ]_vars

C10_Witness ==
    /\ pc = "idle" /\ Len(out) = 2
    /\ out[1].op = "read" /\ out[1].ret = 0
    /\ out[2].op = "read" /\ out[2].ret = AVERROR_EINVAL /\ out[2].req = 0
    /\ ~out[2].written /\ cur_buf = NULL
    /\ faults = <<"no_delivery">>

(* ================== plain pull, poll and teardown ===================== *)
(* The slot as the request of this step left it: a frame delivered during  *)
(* the request sits in it.                                                 *)
SlotAfterRequest ==
    IF delivered' # delivered THEN Last(delivered') ELSE cur_buf

(* C11: status propagation of the plain pull.  When the upstream request   *)
(* made by av_buffersink_read returns end-of-stream or another negative    *)
(* status, the call returns exactly that status, has issued exactly that   *)
(* one request, writes no destination and leaves the slot as the request   *)
(* left it.                                                                *)
C11_StatusPropagation ==
    [][ (/\ pc = "idle" /\ upstream'.requests > upstream.requests
         /\ pc' # "aborted"
         /\ PulledKind \in {"eof", "error", "deliver_error"}) =>
            /\ pc' = "idle"
            /\ Len(out') = Len(out) + 1
            /\ Last(out').op = "read"
            /\ Last(out').ret = PulledStatus
            /\ Last(out').ret < 0
            /\ ~Last(out').written
            /\ Last(out').reqs = 1
            /\ Requested
            /\ cur_buf' = SlotAfterRequest ]_vars

(* end-of-stream and an upstream error both came back from a plain pull    *)
C11_Witness ==
    /\ pc = "idle" /\ Len(out) = 2
    /\ out[1].op = "read" /\ out[1].ret = AVERROR_EIO /\ out[1].req = AVERROR_EIO
    /\ out[2].op = "read" /\ out[2].ret = AVERROR_EOF /\ out[2].req = AVERROR_EOF
    /\ ~out[1].written /\ ~out[2].written
    /\ upstream.requests = 2

(* The sink holds frame f: it sits in the slot and was not unreferenced.   *)
HeldBySink(f) ==
    cur_buf = f /\ \A j \in 1..Len(released) : released[j] # f.id

(* C12 as stated: after uninit the sample queue is released and no frame   *)
(* delivered to the sink is still held in the pending frame slot.          *)
C12_AsStated ==
    pc = "closed" =>
        /\ ~audio_fifo.allocated
        /\ \A i \in 1..Len(delivered) : ~HeldBySink(delivered[i])

(* C13: poll is non-consuming.  av_buffersink_read without a destination   *)
(* returns the value of the upstream poll query, issues no upstream frame  *)
(* request, and leaves the slot, the sample queue and next_pts unchanged,  *)
(* whether the slot is empty or occupied.                                  *)
C13_PollNonConsuming ==
    [][ (polled'.valid /\ polled' # polled) =>
            /\ polled'.ret = polled'.query
            /\ upstream' = upstream
            /\ delivered' = delivered
            /\ cur_buf' = cur_buf
            /\ audio_fifo' = audio_fifo
            /\ next_pts' = next_pts
            /\ out' = out /\ pc' = pc ]_vars

(* a poll on an occupied slot with samples queued                          *)
C13_Witness ==
    /\ polled.valid /\ polled.ret = 1
    /\ cur_buf # NULL
    /\ av_audio_fifo_size(audio_fifo) > 0
    /\ upstream.requests = 2

(* ===================== timestamps of the re-chunker =================== *)
(* A step of the pull loop whose pull handed out a frame.                  *)
PulledFrame ==
    /\ pc = "loop" /\ Requested /\ pc' # "aborted"
    /\ PulledStatus = 0

(* C14: timestamp resynchronisation.  In av_buffersink_read_samples each   *)
(* successfully pulled frame with a defined timestamp sets next_pts to     *)
(* that timestamp minus the time-equivalent of the queue size before the   *)
(* frame is appended; a frame without a timestamp leaves next_pts as it    *)
(* is.  This holds whether or not the append that follows succeeds.        *)
C14_Resync ==
    [][ PulledFrame =>
            LET f == SlotAfterRequest
                q == av_audio_fifo_size(audio_fifo)
            IN  /\ f # NULL
                /\ next_pts' = IF f.pts # AV_NOPTS_VALUE
                               THEN f.pts - av_rescale_q(q, link)
                               ELSE next_pts ]_vars

(* a stamped frame was appended behind one queued sample                   *)
C14_Witness ==
    /\ pc = "loop" /\ out = <<>>
    /\ Len(appended) = 2
    /\ appended[1].nb_samples = 1 /\ appended[2].nb_samples = 1
    /\ appended[2].pts = 2
    /\ next_pts = 2 - av_rescale_q(1, link)
    /\ av_audio_fifo_size(audio_fifo) = 2

(* A step in which av_buffersink_read_samples returned a frame.            *)
ReturnedFrame ==
    /\ pc = "loop" /\ Len(out') = Len(out) + 1
    /\ Last(out').ret = 0 /\ Last(out').written

(* C15: timestamp assignment and advance.  Every frame returned by         *)
(* av_buffersink_read_samples, full or final short, carries the value      *)
(* next_pts had at the drain, and the drain adds to next_pts exactly the   *)
(* time-equivalent of the samples in the returned frame; next_pts changes  *)
(* in no step other than such a drain or a resynchronisation on a pulled   *)
(* frame.                                                                  *)
C15_StampAndAdvance ==
    [][ /\ ReturnedFrame =>
            LET b == Last(out').buf
            IN  /\ Last(out').op = "read_samples"
                /\ b.pts = next_pts
                /\ b.nb_samples = Len(b.data)
                /\ next_pts' = next_pts + av_rescale_q(b.nb_samples, link)
        /\ next_pts' # next_pts => (ReturnedFrame \/ PulledFrame) ]_vars

(* a full frame and a final short frame, chained on a time base in which   *)
(* a sample is not a whole number of ticks                                 *)
C15_Witness ==
    /\ pc = "idle" /\ Len(out) = 2 /\ OnlyReadSamplesOf(2)
    /\ link.sample_rate = 3
    /\ Sizes(out) = <<2, 1>>
    /\ out[2].buf.pts = out[1].buf.pts + av_rescale_q(2, link)
    /\ next_pts = out[2].buf.pts + av_rescale_q(1, link)
    /\ out[2].pull = AVERROR_EOF

(* Record r is a call that returned a frame of the size it asked for.      *)
FullDrain(r) ==
    /\ r.op = "read_samples" /\ r.ret = 0 /\ r.written
    /\ r.buf.nb_samples = r.n

(* C16 as stated: no accumulated drift.  After two consecutive full-size   *)
(* drains of N samples with no resynchronisation in between (the second    *)
(* call made no pull), next_pts has advanced from the first frame's        *)
(* timestamp by the time-equivalent of 2*N samples.                        *)
C16_AsStated ==
    (/\ pc \in {"idle", "closed"} /\ Len(out) >= 2
     /\ FullDrain(out[Len(out) - 1]) /\ FullDrain(Last(out))
     /\ out[Len(out) - 1].n = Last(out).n
     /\ Last(out).reqs = 0) =>
        next_pts - out[Len(out) - 1].buf.pts
            = av_rescale_q(2 * Last(out).n, link)

(* ============================ ownership =============================== *)
(* How many times the frame with identity id occurs in a sequence of       *)
(* identities.                                                             *)
RECURSIVE Count(_, _)
Count(ids, id) ==
    IF ids = <<>> THEN 0
    ELSE (IF ids[1] = id THEN 1 ELSE 0) + Count(Tail(ids), id)

(* The identities of the frames handed to the callers, in order.           *)
HandedOut == [i \in 1..Len(Returned(out)) |-> Returned(out)[i].id]

(* The owners of the frame with identity id: the graph through the link's  *)
(* reference, the slot, the callers, and the releases.                     *)
Owners(id) ==
    (IF link_cur_buf.id = id THEN 1 ELSE 0)
    + (IF cur_buf.id = id THEN 1 ELSE 0)
    + Count(HandedOut, id)
    + Count(released, id)

(* C17: single-owner discipline.  Every frame the upstream delivered has   *)
(* exactly one owner among the graph (the link's reference), the slot, a   *)
(* caller and the releases; a frame returned by av_buffersink_read is the  *)
(* delivered frame itself, a frame returned by av_buffersink_read_samples  *)
(* is never a delivered frame; every frame that went into the queue, and   *)
(* every frame whose append failed, has been released exactly once.        *)
C17_SingleOwner ==
    /\ \A i \in 1..Len(delivered) : Owners(delivered[i].id) = 1
    /\ \A i \in 1..Len(out) :
          (out[i].ret = 0 /\ out[i].written) =>
              IF out[i].op = "read"
              THEN \E j \in 1..Len(delivered) : delivered[j] = out[i].buf
              ELSE out[i].buf.id = 0
    /\ \A i \in 1..Len(appended) : Count(released, appended[i].id) = 1
    /\ Len(released) = Len(appended)
                        + Cardinality({ j \in 1..Len(faults) :
                                          faults[j] = "fifo_write" })

(* one frame went to the caller of a plain pull, the other was pulled by   *)
(* av_buffersink_read_samples and released after its append failed         *)
C17_Witness ==
    /\ pc = "idle" /\ Len(out) = 2 /\ Len(delivered) = 2
    /\ out[1].op = "read" /\ out[1].written /\ out[1].buf.id = 1
    /\ out[2].op = "read_samples" /\ out[2].ret = AVERROR_ENOMEM
    /\ faults = <<"fifo_write">>
    /\ released = <<2>> /\ appended = <<>>
    /\ cur_buf = NULL /\ link_cur_buf = NULL

(* ============================ termination ============================= *)
(* Record r is exactly one of: a frame, end-of-stream, an error.           *)
OneOutcome(r) ==
    \/ r.ret = 0 /\ r.written /\ r.buf # NULL
    \/ r.ret = AVERROR_EOF /\ ~r.written
    \/ r.ret < 0 /\ r.ret # AVERROR_EOF /\ ~r.written

(* C18: every av_buffersink_read_samples call terminates.  Every upstream  *)
(* request returns and the upstream delivers finitely many frames, some of *)
(* them with zero samples; then a call that has entered the pull loop      *)
(* returns, and what it returns is exactly one of a frame, end-of-stream   *)
(* or an error, unless the assertion of start_frame stops the program.     *)
C18_Terminates ==
    \A k \in 0..(MaxCalls - 1) :
        (pc = "loop" /\ Len(out) = k) ~>
            \/ pc = "aborted"
            \/ /\ pc \in {"idle", "closed"}
               /\ Len(out) > k
               /\ out[k + 1].op = "read_samples"
               /\ OneOutcome(out[k + 1])

(* a call returned a frame after pulling a frame with zero samples first   *)
C18_Witness ==
    /\ pc = "idle" /\ Len(out) = 1
    /\ out[1].op = "read_samples" /\ out[1].ret = 0 /\ out[1].written
    /\ out[1].reqs = 2
    /\ Len(appended) = 2 /\ appended[1].nb_samples = 0

(* ======================== queue and plain pull ======================== *)
(* C19: queue-first service.  When the queue already holds at least        *)
(* nb_samples samples at the start of av_buffersink_read_samples, the call *)
(* issues no upstream request and does not touch the slot; it returns the  *)
(* first nb_samples samples of the queue and leaves the remainder queued   *)
(* in order.  When the output frame cannot be allocated the call fails and *)
(* the queue is left as it was.                                            *)
C19_QueueFirst ==
    [][ (/\ pc = "loop" /\ reqs = 0
         /\ av_audio_fifo_size(audio_fifo) >= nb_samples) =>
            /\ upstream' = upstream
            /\ delivered' = delivered
            /\ cur_buf' = cur_buf
            /\ pc' = "idle"
            /\ Len(out') = Len(out) + 1
            /\ LET r == Last(out')
                   q == audio_fifo.samples
               IN  /\ r.op = "read_samples" /\ r.reqs = 0
                   /\ IF r.ret = 0
                      THEN /\ r.written
                           /\ r.buf.nb_samples = nb_samples
                           /\ r.buf.data = SubSeq(q, 1, nb_samples)
                           /\ audio_fifo'.samples
                                 = SubSeq(q, nb_samples + 1, Len(q))
                      ELSE /\ r.ret = AVERROR_ENOMEM /\ ~r.written
                           /\ audio_fifo' = audio_fifo ]_vars

(* a call found two samples queued, took the first and left the second     *)
C19_Witness ==
    /\ pc = "idle" /\ Len(out) = 2
    /\ out[1].op = "read_samples" /\ out[1].ret = AVERROR_ENOMEM
    /\ out[2].op = "read_samples" /\ out[2].ret = 0 /\ out[2].n = 1
    /\ out[2].reqs = 0 /\ out[2].buf.data = <<1>>
    /\ audio_fifo.samples = <<2>>
    /\ upstream.requests = 1

(* A step of av_buffersink_read, with a destination or without.            *)
PlainStep ==
    pc = "idle" /\ (Requested \/ (polled'.valid /\ polled' # polled))

(* A step in which av_buffersink_read_samples starts.                      *)
EnterStep ==
    pc = "idle" /\ ~PlainStep /\ pc' # "closed"

(* C20: the plain pull bypasses the re-chunker state.  No step of          *)
(* av_buffersink_read, whatever it returns, changes the sample queue or    *)
(* next_pts; the queue comes into existence only at the start of an        *)
(* av_buffersink_read_samples call that finds none, and a call that finds  *)
(* one keeps it as it is, whatever its nb_samples; the queue goes away     *)
(* only at teardown.                                                       *)
C20_PlainPullBypass ==
    [][ /\ PlainStep => (audio_fifo' = audio_fifo /\ next_pts' = next_pts)
        /\ (~audio_fifo.allocated /\ audio_fifo'.allocated) =>
              /\ EnterStep /\ pc' = "loop"
              /\ audio_fifo' = av_audio_fifo_alloc(nb_samples', TRUE)
        /\ (EnterStep /\ audio_fifo.allocated) =>
              (audio_fifo' = audio_fifo /\ next_pts' = next_pts)
        /\ (audio_fifo.allocated /\ ~audio_fifo'.allocated) =>
              pc' = "closed" ]_vars

(* after a plain pull, a call asking for more than the queue's first       *)
(* capacity starts on the queue the first call created                     *)
C20_Witness ==
    /\ pc = "loop" /\ nb_samples = 2 /\ Len(out) = 2
    /\ out[1].op = "read_samples" /\ out[1].n = 1 /\ out[1].ret = 0
    /\ out[2].op = "read" /\ out[2].ret = 0 /\ out[2].written
    /\ audio_fifo.allocated /\ audio_fifo.capacity = 1
    /\ reqs = 0

====
